---- MODULE Spec2Model ----
(***************************************************************************)
(* BuddyClaw: the Recovery Engine (autonomous-recovery.js) and the Agent   *)
(* Provisioner with its Credential Vault (agent-manager.js as carried in   *)
(* logic-test.js, enhanced-poster.js, email-verifier.js).                  *)
(*                                                                         *)
(* The specifications of the module share its variables:                   *)
(*   SpecRecovery  - one AutonomousRecovery object serving recover calls;  *)
(*   SpecHistory   - the same object with a history of capacity 1, called  *)
(*                   until records are evicted, and asked for statistics;  *)
(*   SpecProvision - provisioning runs, each its own node process, over    *)
(*                   the one agents.json file of the vault;                *)
(*   SpecSolver    - one solveCaptcha call;                                *)
(*   SpecVerifier  - one checkEmailVerification call;                      *)
(*   SpecExtract   - extractVerificationLink on one message body;          *)
(*   SpecPoster    - one processInput call of the poster;                  *)
(*   SpecOnboard   - the chat onboarding of one user.                      *)
(***************************************************************************)
EXTENDS Integers, Sequences, FiniteSets, TLC

VARIABLES
    \* ---- AutonomousRecovery object (constructor, lines 11-19)
    maxRetries, retryDelay, exponentialBackoff, maxHistorySize, errorHistory,
    \* ---- one attemptRecovery call in flight
    rpc,            \* "idle" | "loop" | "sleeping" | "returned" | "raised"
    error,          \* the error passed in: a message, or NoMessage
    errorCode,      \* its error.code || error.status || ''
    context,        \* the context passed in
    strategy,       \* the error kind whose strategy was picked
    attempts,       \* executeRecoveryStrategy's local counter
    lastError,      \* executeRecoveryStrategy's local lastError (its message)
    handlerCalls,   \* history: how many times strategy.handler was invoked
    handlerSleep,   \* history: how long the last strategy.handler call slept
    lastSleep,      \* history: the backoff delay slept since the last attempt
    waitedBefore,   \* history: waitedBefore[k] = backoff slept just before attempt k
    outcome,        \* what attemptRecovery returned
    calls,          \* number of attemptRecovery calls begun
    callLimit,      \* number of attemptRecovery calls the caller makes
    errorStats,     \* what the last getErrorStats call returned
    \* ---- the vault file (agents.json) and the provisioning runs
    file,           \* [torn, agents]: torn while a writeFileSync is under way or after
                    \* two writes mixed; agents = the last complete contents
    ppc,            \* ppc[r]: what run r does next
    snap,           \* snap[r]: the `agents` object run r holds in memory
    idOf,           \* idOf[r]: agent_email of run r
    cred,           \* cred[r]: appPassword run r obtained (0 = none)
    viaStored,      \* history: run r used the stored credentials of an active agent
    reason,         \* reason[r]: why run r failed
    afterFailed,    \* history: run r began after a run for the same identity had failed
    produced,       \* history: produced[i] = app passwords ever derived for identity i
    tornRead,       \* the step just taken was a loadAgents() that read a partly written file
    lastVerify,     \* the step just taken was step 3 of registerAndPublish: [run, result]
    \* ---- CaptchaSolver: one solveCaptcha call
    solverTimeout,  \* this.timeout
    spc,            \* "idle" | "polling" | "returned"
    sElapsed,       \* Date.now() - startTime of pollForSolution, in ms
    jobFailed,      \* history: the service has reported an explicit failure for the job
    solveResult,    \* what solveCaptcha returned
    \* ---- EmailVerifier: one checkEmailVerification call
    vTimeout,       \* the parameter timeout
    vpc,            \* "idle" | "polling" | "returned"
    vElapsed,       \* Date.now() - startTime of checkEmailVerification, in ms
    vAttempts,      \* the local counter attempts
    lastPoll,       \* history: how the latest searchForEmail ended
    failedPolls,    \* history: number of searchForEmail calls that threw
    vResult,        \* what checkEmailVerification returned
    \* ---- EmailVerifier.extractVerificationLink: one call
    body,           \* the body text: the sequence of its URLs and other words
    xpc,            \* "idle" | "returned"
    verificationLink, \* the position in body of the URL returned; 0 for null
    \* ---- EnhancedBuddyClaw.processInput: one request in one process
    request,        \* which fields of the input are present (truthy)
    vaultAgent,     \* the record of agent_email in agents.json
    qpc,            \* "idle" | "returned"
    response,       \* what processInput returned
    registrationPosted, \* history: the registration POST was sent to the site
    publishPosted,  \* history: the publishing POST was sent to the site
    \* ---- OpenClawIntegration.handleSetup: the chat onboarding of one user
    openclawCompleted, \* config/openclaw.json says onboarding.completed
    onboardingStep, \* session.onboardingStep; "none" when the user has no session
    sessionConfig,  \* session.config
    savedConfig,    \* buddyclaw-config.json
    setupResponse,  \* what the last handleSetup returned
    nInputs,        \* history: the number of handleSetup calls so far
    followed        \* history: the calls so far are the first `followed` inputs
                    \* of testInteractiveOnboarding; -1 once they are not

varsR == <<maxRetries, retryDelay, exponentialBackoff, maxHistorySize, errorHistory,
           rpc, error, errorCode, context, strategy, attempts, lastError, handlerCalls,
           handlerSleep, lastSleep, waitedBefore, outcome, calls, callLimit, errorStats>>
varsP == <<file, ppc, snap, idOf, cred, viaStored, reason, afterFailed,
           produced, tornRead, lastVerify>>
varsS == <<solverTimeout, spc, sElapsed, jobFailed, solveResult>>
varsV == <<vTimeout, vpc, vElapsed, vAttempts, lastPoll, failedPolls, vResult>>
varsX == <<body, xpc, verificationLink>>
varsQ == <<request, vaultAgent, qpc, response, registrationPosted, publishPosted>>
varsO == <<openclawCompleted, onboardingStep, sessionConfig, savedConfig,
          setupResponse, nInputs, followed>>
vars == <<varsR, varsP, varsS, varsV, varsX, varsQ, varsO>>

\* what the actions of one component leave alone
restR == <<varsP, varsS, varsV, varsX, varsQ, varsO>>
restP == <<varsR, varsS, varsV, varsX, varsQ, varsO>>
restS == <<varsR, varsP, varsV, varsX, varsQ, varsO>>
restV == <<varsR, varsP, varsS, varsX, varsQ, varsO>>
restX == <<varsR, varsP, varsS, varsV, varsQ, varsO>>
restQ == <<varsR, varsP, varsS, varsV, varsX, varsO>>
restO == <<varsR, varsP, varsS, varsV, varsX, varsQ>>

(***************************************************************************)
(* Bounds of the model                                                     *)
(***************************************************************************)
MaxOptRetries == 2      \* options.maxRetries ranges over 0 (absent) .. MaxOptRetries
MaxCalls == 1           \* attemptRecovery calls per behaviour
MaxEvictions == 1       \* attemptRecovery calls made on a full history
MaxRuns == 2            \* provisioning runs per behaviour
MaxBodyLen == 3         \* URLs and words in the body of a message

(***************************************************************************)
(* Program constants                                                       *)
(***************************************************************************)
DefaultMaxRetries == 5
DefaultRetryDelay == 2000
DefaultHistorySize == 100
RateLimitDefaultDelay == 60000
ServerWaitDelay == 10000

RECURSIVE Pow2(_)
Pow2(n) == IF n <= 0 THEN 1 ELSE 2 * Pow2(n - 1)

(***************************************************************************)
(* Error messages.  A message is a string; Keywords(m) lists the keywords  *)
(* of classifyError that the lower-cased message includes.                 *)
(***************************************************************************)
NoMessage == "<no message>"     \* error is null, or error.message is undefined

ErrorMessages ==
    { "Request failed with status 401: unauthorized",
      "Request failed with status 403: forbidden",
      "captcha challenge presented",
      "user must join the group",
      "network timeout",
      "invalid content",
      "rate limit exceeded, retry after 7",
      "rate limit exceeded, retry after 0",
      "500 internal server error",
      "something odd happened",
      "HTTP 401 on captcha verification after network timeout",
      "Unauthorized: 403 Forbidden, rate limit 429, server 500",
      "Request failed with status code 429",
      "Request failed with status code 502",
      "connect ECONNREFUSED 127.0.0.1:80" }

\* error.code || error.status || '': unset, the code of a refused connection,
\* or an HTTP status
NoCode == ""
ErrorCodes == {NoCode, "ECONNREFUSED", "503"}

\* the errors passed to attemptRecovery: every message without a code, and
\* some with one; an error without a message, with and without a code
ErrorInputs ==
    { <<m, NoCode>> : m \in ErrorMessages \cup {NoMessage} }
        \cup { <<"connect ECONNREFUSED 127.0.0.1:80", "ECONNREFUSED">>,
               <<"invalid content", "ECONNREFUSED">>,
               <<"something odd happened", "503">>,
               <<NoMessage, "ECONNREFUSED">> }

Keywords(m) ==
    CASE m = "Request failed with status 401: unauthorized" -> {"401", "unauthorized"}
      [] m = "Request failed with status 403: forbidden"    -> {"403", "forbidden"}
      [] m = "captcha challenge presented"                  -> {"captcha"}
      [] m = "user must join the group"                     -> {"join", "group"}
      [] m = "network timeout"                              -> {"network", "timeout"}
      [] m = "invalid content"                              -> {"invalid", "content"}
      [] m = "rate limit exceeded, retry after 7"           -> {"rate limit"}
      [] m = "rate limit exceeded, retry after 0"           -> {"rate limit"}
      [] m = "500 internal server error"                    -> {"500", "internal", "server"}
      [] m = "HTTP 401 on captcha verification after network timeout"
            -> {"401", "captcha", "verification", "network", "timeout"}
      [] m = "Unauthorized: 403 Forbidden, rate limit 429, server 500"
            -> {"unauthorized", "403", "forbidden", "rate limit", "429", "server", "500"}
      [] m = "Request failed with status code 429"          -> {"429"}
      [] m = "Unable to resolve authentication issue"       -> {"authentication"}
      [] m = "Unable to solve CAPTCHA"                      -> {"captcha"}
      [] m = "No group/forum ID provided"                   -> {"group", "forum"}
      [] m = "Network issue persists"                       -> {"network"}
      [] m = "Unable to fix content issues"                 -> {"content"}
      [] OTHER                                              -> {}

Includes(m, kw) == kw \in Keywords(m)

\* extractRetryAfter: the N of "retry after N", or -1 for null (no match)
extractRetryAfter(m) ==
    CASE m = "rate limit exceeded, retry after 7" -> 7
      [] m = "rate limit exceeded, retry after 0" -> 0
      [] OTHER                                    -> -1

ErrorKinds ==
    { "authentication_error", "authorization_error", "captcha_error",
      "membership_error", "network_error", "content_error",
      "rate_limit_error", "server_error", "unknown_error" }

\* the rules of classifyError (lines 89-135), each the condition of one `if`
AuthenticationRule(m, code) ==
    Includes(m, "401") \/ Includes(m, "unauthorized")
        \/ Includes(m, "authentication") \/ Includes(m, "login")

AuthorizationRule(m, code) ==
    Includes(m, "403") \/ Includes(m, "forbidden")
        \/ Includes(m, "permission") \/ Includes(m, "access denied")

CaptchaRule(m, code) ==
    Includes(m, "captcha") \/ Includes(m, "security check")
        \/ Includes(m, "verification")

MembershipRule(m, code) ==
    Includes(m, "group") \/ Includes(m, "forum")
        \/ Includes(m, "membership") \/ Includes(m, "join")

NetworkRule(m, code) ==
    Includes(m, "network") \/ Includes(m, "timeout")
        \/ Includes(m, "connection") \/ code = "ECONNREFUSED"

ContentRule(m, code) ==
    Includes(m, "content") \/ Includes(m, "validation")
        \/ Includes(m, "invalid") \/ Includes(m, "required")

RateLimitRuleWithout429(m, code) ==
    Includes(m, "rate limit") \/ Includes(m, "too many requests")
RateLimitRule(m, code) ==
    Includes(m, "rate limit") \/ Includes(m, "too many requests")
        \/ Includes(m, "429")

ServerRule(m, code) ==
    Includes(m, "500") \/ Includes(m, "server") \/ Includes(m, "internal")

\* classifyError, for an error whose message is a string (and, before it, the
\* same with its first two rules in the other order)
classifyErrorAuthorizationFirst(m, code) ==
    IF AuthorizationRule(m, code) THEN "authorization_error"
    ELSE IF AuthenticationRule(m, code) THEN "authentication_error"
    ELSE "unknown_error"
classifyError(m, code) ==
    IF AuthenticationRule(m, code) THEN "authentication_error"
    ELSE IF AuthorizationRule(m, code) THEN "authorization_error"
    ELSE IF CaptchaRule(m, code) THEN "captcha_error"
    ELSE IF MembershipRule(m, code) THEN "membership_error"
    ELSE IF NetworkRule(m, code) THEN "network_error"
    ELSE IF ContentRule(m, code) THEN "content_error"
    ELSE IF RateLimitRule(m, code) THEN "rate_limit_error"
    ELSE IF ServerRule(m, code) THEN "server_error"
    ELSE "unknown_error"

\* initializeRecoveryStrategies: the kinds that have a strategy
recoveryStrategies == ErrorKinds

(***************************************************************************)
(* Contexts: null, or the set of fields that are present and truthy.       *)
(***************************************************************************)
Ctx(fs) == [isNull |-> FALSE, fields |-> fs]
NullContext == [isNull |-> TRUE, fields |-> {}]

Contexts ==
    { Ctx({}), NullContext,
      Ctx({"credentials"}),
      Ctx({"requiresCaptcha", "captchaData", "captchaType"}),
      Ctx({"groupId"}),
      Ctx({"requestedPermissions"}),
      Ctx({"timeout"}),
      Ctx({"contentIssues", "content"}) }

Has(ctx, f) == f \in ctx.fields

TypeErrorMessage == "Cannot read properties of null"

\* the data of a handler's result: a tag for its shape and, for a join,
\* { joined: true, groupId }
Data(tag) == [tag |-> tag, joined |-> FALSE, groupId |-> ""]
NoData == Data("")
Joined(g) == [tag |-> "joined", joined |-> TRUE, groupId |-> g]

\* context.groupId and context.forumId where present
GroupIdOf(ctx) == IF Has(ctx, "groupId") THEN "g1" ELSE "undefined"
ForumIdOf(ctx) == IF Has(ctx, "forumId") THEN "f1" ELSE "undefined"

Ok(d, s) == [success |-> TRUE, error |-> "", data |-> Data(d), slept |-> s]
OkData(d) == [success |-> TRUE, error |-> "", data |-> d, slept |-> 0]
Fail(m)  == [success |-> FALSE, error |-> m, data |-> NoData, slept |-> 0]

\* attemptGroupJoin (lines 579-598): the placeholder reports success
attemptGroupJoinFails(groupId) == FALSE
attemptGroupJoin(groupId) == TRUE

\* The nine handlers.  solved: what captchaSolver.solveCaptcha reports.
handleAuthenticationError(err, ctx, solved) ==
    IF ctx.isNull THEN Fail(TypeErrorMessage)
    ELSE IF Has(ctx, "credentials") THEN Ok("refreshed", 0)
    ELSE IF Has(ctx, "requiresCaptcha") /\ solved THEN Ok("captchaSolution", 0)
    ELSE Fail("Unable to resolve authentication issue")

handleAuthorizationError(err, ctx, solved) ==
    IF ctx.isNull THEN Fail(TypeErrorMessage)
    ELSE IF (Has(ctx, "groupId") \/ Has(ctx, "forumId"))
            /\ attemptGroupJoin(GroupIdOf(ctx))
      THEN OkData(Joined(GroupIdOf(ctx)))
    ELSE IF Has(ctx, "requestedPermissions") THEN Ok("elevated", 0)
    ELSE Fail("Unable to resolve authorization issue")

handleCaptchaError(err, ctx, solved) ==
    IF ctx.isNull THEN Fail(TypeErrorMessage)
    ELSE IF Has(ctx, "captchaData") /\ Has(ctx, "captchaType") /\ solved
      THEN Ok("solution", 0)
    ELSE Fail("Unable to solve CAPTCHA")

handleMembershipError(err, ctx, solved) ==
    IF ctx.isNull THEN Fail(TypeErrorMessage)
    ELSE IF ~(Has(ctx, "groupId") \/ Has(ctx, "forumId"))
      THEN Fail("No group/forum ID provided")
    ELSE LET groupId == IF Has(ctx, "groupId") THEN GroupIdOf(ctx) ELSE ForumIdOf(ctx)
         IN  IF attemptGroupJoin(groupId) THEN OkData(Joined(groupId))
                                          ELSE Fail("")

handleNetworkError(err, ctx, solved) ==
    IF ctx.isNull THEN Fail(TypeErrorMessage)
    ELSE IF Has(ctx, "alternativeEndpoints") THEN Ok("endpoint", 0)
    ELSE IF Has(ctx, "timeout") THEN Ok("newTimeout", 0)
    ELSE Fail("Network issue persists")

handleContentError(err, ctx, solved) ==
    IF ctx.isNull THEN Fail(TypeErrorMessage)
    ELSE IF Has(ctx, "contentIssues") THEN Ok("fixedContent", 0)
    ELSE Fail("Unable to fix content issues")

handleRateLimitError(err, ctx, solved) ==
    LET retryAfter == extractRetryAfter(err)
        delay == IF retryAfter > 0 THEN retryAfter * 1000 ELSE RateLimitDefaultDelay
    IN  Ok("delay", delay)

handleServerError(err, ctx, solved) ==
    IF ctx.isNull THEN Fail(TypeErrorMessage)
    ELSE IF Has(ctx, "backupServers") THEN Ok("server", 0)
    ELSE Ok("waited", ServerWaitDelay)

handleUnknownError(err, ctx, solved) == Fail(err)

\* strategy.handler(lastError, context) for the strategy of kind k
Handler(k, err, ctx, solved) ==
    CASE k = "authentication_error" -> handleAuthenticationError(err, ctx, solved)
      [] k = "authorization_error"  -> handleAuthorizationError(err, ctx, solved)
      [] k = "captcha_error"        -> handleCaptchaError(err, ctx, solved)
      [] k = "membership_error"     -> handleMembershipError(err, ctx, solved)
      [] k = "network_error"        -> handleNetworkError(err, ctx, solved)
      [] k = "content_error"        -> handleContentError(err, ctx, solved)
      [] k = "rate_limit_error"     -> handleRateLimitError(err, ctx, solved)
      [] k = "server_error"         -> handleServerError(err, ctx, solved)
      [] OTHER                      -> handleUnknownError(err, ctx, solved)


(***************************************************************************)
(* The Recovery Engine                                                     *)
(***************************************************************************)
NoOutcome == [kind |-> "none", success |-> FALSE, error |-> "", attempts |-> 0,
              data |-> NoData, recoveryAttempted |-> FALSE]

\* error.stack: the trace an Error object carries
NoStack == <<>>
StackOf(e) == <<"Error", e, "at">>

\* getErrorStats (lines 635-649): the size of the history, its last ten
\* records, and the number of records of each type
RecentSize == 10
NoStats == [reported |-> FALSE, total |-> 0, recent |-> <<>>, byType |-> {}]
getErrorStats(hist) ==
    [reported |-> TRUE,
     total |-> Len(hist),
     recent |-> IF Len(hist) > RecentSize
                  THEN SubSeq(hist, Len(hist) - RecentSize + 1, Len(hist))
                  ELSE hist,
     byType |-> { <<k, Cardinality({i \in 1..Len(hist) : hist[i].type = k})>> :
                    k \in {hist[i].type : i \in 1..Len(hist)} }]

\* options.retryDelay and options.maxHistorySize: both absent, or 500 ms and 1
OptDelayAndHistory ==
    { [retryDelay |-> 0, maxHistorySize |-> 0],
      [retryDelay |-> 500, maxHistorySize |-> 1] }

\* constructor: `options.x || default`
OrDefault(opt, dflt) == IF opt = 0 THEN dflt ELSE opt

RecoveryInit ==
    /\ \E o \in 0..MaxOptRetries : maxRetries = OrDefault(o, DefaultMaxRetries)
    /\ \E o \in OptDelayAndHistory :
         /\ retryDelay = OrDefault(o.retryDelay, DefaultRetryDelay)
         /\ maxHistorySize = OrDefault(o.maxHistorySize, DefaultHistorySize)
    /\ exponentialBackoff \in BOOLEAN
    /\ errorHistory = <<>>
    /\ rpc = "idle"
    /\ error = NoMessage
    /\ errorCode = NoCode
    /\ context = Ctx({})
    /\ strategy = "none"
    /\ attempts = 0
    /\ lastError = ""
    /\ handlerCalls = 0
    /\ handlerSleep = 0
    /\ lastSleep = 0
    /\ waitedBefore = <<>>
    /\ outcome = NoOutcome
    /\ calls = 0
    /\ callLimit = MaxCalls
    /\ errorStats = NoStats

\* an engine built with { maxRetries: 1, retryDelay: 500, maxHistorySize: 1 },
\* not called yet; its caller goes on calling once the history is full
HistoryInit ==
    /\ maxRetries = 1
    /\ retryDelay = 500
    /\ maxHistorySize = 1
    /\ exponentialBackoff \in BOOLEAN
    /\ errorHistory = <<>>
    /\ rpc = "idle"
    /\ error = NoMessage
    /\ errorCode = NoCode
    /\ context = Ctx({})
    /\ strategy = "none"
    /\ attempts = 0
    /\ lastError = ""
    /\ handlerCalls = 0
    /\ handlerSleep = 0
    /\ lastSleep = 0
    /\ waitedBefore = <<>>
    /\ outcome = NoOutcome
    /\ calls = 0
    /\ callLimit = maxHistorySize + MaxEvictions
    /\ errorStats = NoStats

\* recordError: push, then keep the last maxHistorySize records (and, before
\* it, the same keeping the first maxHistorySize records)
recordErrorKeepFirst(hist, e, ctx, errorType) ==
    LET pushed == Append(hist, [message |-> e, type |-> errorType, context |-> ctx,
                               stack |-> StackOf(e)])
    IN  IF Len(pushed) > maxHistorySize
          THEN SubSeq(pushed, 1, maxHistorySize)
          ELSE pushed
recordError(hist, e, ctx, errorType) ==
    LET pushed == Append(hist, [message |-> e, type |-> errorType, context |-> ctx,
                               stack |-> StackOf(e)])
    IN  IF Len(pushed) > maxHistorySize
          THEN SubSeq(pushed, Len(pushed) - maxHistorySize + 1, Len(pushed))
          ELSE pushed

\* the catch block of attemptRecovery (lines 71-79): a structured result
RecoveryRethrow(msg) == [pc |-> "raised", out |-> NoOutcome]
RecoveryCatch(msg) ==
    [pc |-> "returned",
     out |-> [kind |-> "SystemError", success |-> FALSE, error |-> msg,
              attempts |-> 0, data |-> NoData, recoveryAttempted |-> TRUE]]

\* attemptRecovery up to its first await: classify, record, pick the strategy
AttemptRecovery(e, code, ctx) ==
    /\ rpc \in {"idle", "returned"}
    /\ calls < callLimit
    /\ calls' = calls + 1
    /\ error' = e
    /\ errorCode' = code
    /\ context' = ctx
    /\ attempts' = 0
    /\ handlerCalls' = 0
    /\ handlerSleep' = 0
    /\ lastSleep' = 0
    /\ waitedBefore' = <<>>
    /\ IF e = NoMessage
         THEN \* error.message.toLowerCase() throws a TypeError inside the try
              /\ rpc' = RecoveryCatch(TypeErrorMessage).pc
              /\ outcome' = RecoveryCatch(TypeErrorMessage).out
              /\ UNCHANGED <<errorHistory, strategy, lastError>>
         ELSE LET errorType == classifyError(e, code) IN
              /\ errorHistory' = recordError(errorHistory, e, ctx, errorType)
              /\ IF errorType \notin recoveryStrategies
                   THEN /\ rpc' = "returned"
                        /\ outcome' = [kind |-> "NoStrategy", success |-> FALSE,
                                       error |-> e, attempts |-> 0, data |-> NoData,
                                       recoveryAttempted |-> FALSE]
                        /\ UNCHANGED <<strategy, lastError>>
                   ELSE /\ rpc' = "loop"
                        /\ strategy' = errorType
                        /\ lastError' = e
                        /\ outcome' = NoOutcome
    /\ errorStats' = NoStats
    /\ UNCHANGED <<maxRetries, retryDelay, exponentialBackoff, maxHistorySize,
                   callLimit>>
    /\ UNCHANGED restR

\* the loop condition of executeRecoveryStrategy (line 201)
LoopGuardInclusive == attempts <= maxRetries
LoopGuard == attempts < maxRetries

\* the delay computed after attempt number a (lines 224-226)
BackoffDelayFromTwo(a) ==
    IF exponentialBackoff THEN retryDelay * Pow2(a) ELSE retryDelay
BackoffDelay(a) ==
    IF exponentialBackoff THEN retryDelay * Pow2(a - 1) ELSE retryDelay

\* one pass of the loop body up to the sleep: attempts++, await strategy.handler
HandlerAttempt(solved) ==
    /\ rpc = "loop"
    /\ LoopGuard
    /\ attempts' = attempts + 1
    /\ handlerCalls' = handlerCalls + 1
    /\ waitedBefore' = Append(waitedBefore, lastSleep)
    /\ lastSleep' = 0
    /\ LET result == Handler(strategy, lastError, context, solved) IN
         /\ handlerSleep' = result.slept
         /\ IF result.success
              THEN /\ rpc' = "returned"
                   /\ outcome' = [kind |-> "Recovered", success |-> TRUE, error |-> "",
                                  attempts |-> 0, data |-> result.data,
                                  recoveryAttempted |-> FALSE]
                   /\ UNCHANGED lastError
              ELSE /\ rpc' = "sleeping"
                   /\ lastError' = IF result.error = "" THEN "Recovery attempt failed"
                                                         ELSE result.error
                   /\ UNCHANGED outcome
    /\ UNCHANGED <<maxRetries, retryDelay, exponentialBackoff, maxHistorySize,
                   errorHistory, error, errorCode, context, strategy, calls, callLimit, errorStats>>
    /\ UNCHANGED restR

\* await this.sleep(delay) at the end of the loop body (line 229)
BackoffSleep ==
    /\ rpc = "sleeping"
    /\ lastSleep' = BackoffDelay(attempts)
    /\ rpc' = "loop"
    /\ UNCHANGED <<maxRetries, retryDelay, exponentialBackoff, maxHistorySize,
                   errorHistory, error, errorCode, context, strategy, attempts, lastError,
                   handlerCalls, handlerSleep, waitedBefore, outcome, calls, callLimit, errorStats>>
    /\ UNCHANGED restR

\* the loop ends: executeRecoveryStrategy returns failure (lines 232-237) and
\* attemptRecovery wraps it (lines 60-68)
\* the error executeRecoveryStrategy reports when it gives up (line 235)
ExhaustedErrorOriginal == error
ExhaustedError == lastError

RetriesExhausted ==
    /\ rpc = "loop"
    /\ ~LoopGuard
    /\ rpc' = "returned"
    /\ outcome' = [kind |-> "ExhaustedRetries", success |-> FALSE,
                   error |-> ExhaustedError, attempts |-> attempts, data |-> NoData,
                   recoveryAttempted |-> FALSE]
    /\ UNCHANGED <<maxRetries, retryDelay, exponentialBackoff, maxHistorySize,
                   errorHistory, error, errorCode, context, strategy, attempts, lastError,
                   handlerCalls, handlerSleep, lastSleep, waitedBefore, calls, callLimit, errorStats>>
    /\ UNCHANGED restR

\* getErrorStats, called by handleStatus (openclaw-integration.js line 1053)
\* when no attemptRecovery call is under way
GetErrorStats ==
    /\ rpc \in {"idle", "returned"}
    /\ errorStats' = getErrorStats(errorHistory)
    /\ UNCHANGED <<maxRetries, retryDelay, exponentialBackoff, maxHistorySize,
                   errorHistory, rpc, error, errorCode, context, strategy, attempts,
                   lastError, handlerCalls, handlerSleep, lastSleep, waitedBefore,
                   outcome, calls, callLimit>>
    /\ UNCHANGED restR

RecoveryNext ==
    \/ \E e \in ErrorInputs, ctx \in Contexts : AttemptRecovery(e[1], e[2], ctx)
    \/ \E solved \in BOOLEAN : HandlerAttempt(solved)
    \/ BackoffSleep
    \/ RetriesExhausted

\* the engine with its callers: recover calls and requests for the statistics
HistoryNext ==
    \/ RecoveryNext
    \/ GetErrorStats


(***************************************************************************)
(* The Credential Vault (AgentManager) and the provisioning workflow       *)
(* (EnhancedBuddyClaw.processMultiAgentRequest / registerAndPublish).      *)
(*                                                                         *)
(* Every run is one invocation of the poster (enhanced-poster.js, lines     *)
(* 469-496: the script reads one request from stdin and handles it), a     *)
(* node process of its own; the runs share agents.json.  Each operation on *)
(* the file is one step.                                                   *)
(***************************************************************************)
Runs == 1..MaxRuns
Identities == {"a@x.com", "b@x.com"}

NoAgent == [present |-> FALSE, password |-> 0, status |-> "none",
            hasCredentials |-> FALSE, appPassword |-> 0]
EmptyVault == [i \in Identities |-> NoAgent]

\* generateWordPressPassword: 16 random characters; run r draws the value r,
\* so the passwords of different runs differ
generateWordPressPassword(r) == r

\* the record registerAgent creates (lines 96-104)
NewAgent(pw) == [present |-> TRUE, password |-> pw, status |-> "pending_registration",
                 hasCredentials |-> FALSE, appPassword |-> 0]

\* the update of registerWordPressAccount on success (lines 165-170)
MarkRegistered(agent) == [agent EXCEPT !.status = "registered",
                                       !.hasCredentials = TRUE,
                                       !.appPassword = 0]

\* the update of generateApplicationPassword (lines 217-220)
ActivateKeepStatus(agent) == [agent EXCEPT !.appPassword = agent.password]
ActivateAgent(agent) == [agent EXCEPT !.appPassword = agent.password,
                                      !.status = "active"]

\* loadAgents: a file that does not parse yields { agents: {} }
loadAgents(f) == IF f.torn THEN EmptyVault ELSE f.agents

\* the test of getAgentCredentials (lines 244-250)
CredentialsAvailable(agent) ==
    agent.present /\ agent.status = "active" /\ agent.hasCredentials

\* a read that met the file between the truncation and the write of a save whose
\* previous contents were not empty
PartialRead(f) == f.torn /\ f.agents # EmptyVault

\* an agent provisioned by an earlier, finished invocation: its password is
\* none of those the runs of the behaviour draw
PriorPassword == MaxRuns + 1
PriorAgent == ActivateAgent(MarkRegistered(NewAgent(PriorPassword)))

\* agents.json when the behaviour begins: as ensureVaultExists creates it, or
\* holding the agent of an earlier invocation that reached active
InitialVaults ==
    { EmptyVault, [EmptyVault EXCEPT !["a@x.com"] = PriorAgent] }

\* the app passwords derived so far for the agents of vault v
Derived(v) ==
    [i \in Identities |-> IF v[i].appPassword # 0 THEN {v[i].appPassword} ELSE {}]

\* no verification step has just been taken
NoVerify == [run |-> 0, result |-> ""]

\* runs differ only in the password they draw, so their identities are listed
\* in order
Sorted(f) == \A r, q \in Runs : r < q => (f[r] = f[q] \/ f[r] = "a@x.com")

\* on an empty vault the two identities are interchangeable: the one that
\* has no fewer runs is called a@x.com
Balanced(v, f) ==
    v = EmptyVault =>
        Cardinality({r \in Runs : f[r] = "a@x.com"})
            >= Cardinality({r \in Runs : f[r] = "b@x.com"})

ProvisionInit ==
    /\ idOf \in {f \in [Runs -> Identities] : Sorted(f)}
    /\ \E v \in InitialVaults :
         /\ file = [torn |-> FALSE, agents |-> v]
         /\ produced = Derived(v)
         /\ Balanced(v, idOf)
    /\ ppc = [r \in Runs |-> "getCreds"]
    /\ snap = [r \in Runs |-> EmptyVault]
    /\ cred = [r \in Runs |-> 0]
    /\ viaStored = [r \in Runs |-> FALSE]
    /\ reason = [r \in Runs |-> ""]
    /\ afterFailed = [r \in Runs |-> FALSE]
    /\ tornRead = FALSE
    /\ lastVerify = NoVerify

\* processMultiAgentRequest: getAgentCredentials(agent_email) (lines 67-73)
GetCredentials(r) ==
    /\ ppc[r] = "getCreds"
    /\ tornRead' = PartialRead(file)
    /\ afterFailed' = [afterFailed EXCEPT ![r] =
                         \E q \in Runs \ {r} : idOf[q] = idOf[r] /\ ppc[q] = "failed"]
    /\ LET agent == loadAgents(file)[idOf[r]] IN
         IF CredentialsAvailable(agent)
           THEN /\ cred' = [cred EXCEPT ![r] = agent.appPassword]
                /\ viaStored' = [viaStored EXCEPT ![r] = TRUE]
                /\ ppc' = [ppc EXCEPT ![r] = "done"]
           ELSE /\ ppc' = [ppc EXCEPT ![r] = "ra_load"]
                /\ UNCHANGED <<cred, viaStored>>
    /\ UNCHANGED <<file, snap, idOf, reason, produced>>
    /\ lastVerify' = NoVerify
    /\ UNCHANGED restP

\* registerAgent up to saveAgents: load, existence check, new record (lines 87-107)
RegisterAgent(r) ==
    /\ ppc[r] = "ra_load"
    /\ tornRead' = PartialRead(file)
    /\ LET agents == loadAgents(file) IN
         IF agents[idOf[r]].present
           THEN /\ ppc' = [ppc EXCEPT ![r] = "failed"]
                /\ reason' = [reason EXCEPT ![r] = "AgentExists"]
                /\ UNCHANGED snap
           ELSE /\ snap' = [snap EXCEPT ![r] =
                     [agents EXCEPT ![idOf[r]] = NewAgent(generateWordPressPassword(r))]]
                /\ ppc' = [ppc EXCEPT ![r] = "ra_trunc"]
                /\ UNCHANGED reason
    /\ UNCHANGED <<file, idOf, cred, viaStored, afterFailed, produced>>
    /\ lastVerify' = NoVerify
    /\ UNCHANGED restP

\* saveAgents, first half: writeFileSync opens agents.json with flag 'w',
\* which truncates it
SaveTruncate(r) ==
    /\ ppc[r] \in {"ra_trunc", "wp_trunc", "gp_trunc"}
    /\ file' = [file EXCEPT !.torn = TRUE]
    /\ ppc' = [ppc EXCEPT ![r] = CASE ppc[r] = "ra_trunc" -> "ra_write"
                                   [] ppc[r] = "wp_trunc" -> "wp_write"
                                   [] OTHER               -> "gp_write"]
    /\ tornRead' = FALSE
    /\ UNCHANGED <<snap, idOf, cred, viaStored, reason, afterFailed, produced>>
    /\ lastVerify' = NoVerify
    /\ UNCHANGED restP

\* saveAgents, second half: the bytes are written from offset 0.  When another
\* process completed a write since this run's truncation, the file ends as this
\* run's text or, the other text being longer, as a mix that does not parse.
SaveWrite(r, mixed) ==
    /\ ppc[r] \in {"ra_write", "wp_write", "gp_write"}
    /\ mixed => ~file.torn
    /\ file' = IF mixed THEN [file EXCEPT !.torn = TRUE]
                        ELSE [torn |-> FALSE, agents |-> snap[r]]
    /\ snap' = [snap EXCEPT ![r] = EmptyVault]
    /\ produced' = IF ppc[r] = "gp_write"
                     THEN [produced EXCEPT ![idOf[r]] =
                             @ \cup {snap[r][idOf[r]].appPassword}]
                     ELSE produced
    /\ ppc' = [ppc EXCEPT ![r] = CASE ppc[r] = "ra_write" -> "wp_load"
                                   [] ppc[r] = "wp_write" -> "verify"
                                   [] OTHER               -> "fc_load"]
    /\ tornRead' = FALSE
    /\ UNCHANGED <<idOf, cred, viaStored, reason, afterFailed>>
    /\ lastVerify' = NoVerify
    /\ UNCHANGED restP

\* saveAgents fails: writeFileSync throws when it cannot open agents.json (the
\* file keeps its contents) and saveAgents rethrows (lines 282-285).  The catch
\* of registerAgent and of generateApplicationPassword turns the error into a
\* failure result, on which registerAndPublish throws; the catch blocks of
\* registerWordPressAccount (lines 180-200) do the same, and registerAndPublish
\* only logs that result (lines 202-207) and goes on.
SaveFails(r) ==
    /\ ppc[r] \in {"ra_trunc", "wp_trunc", "gp_trunc"}
    /\ IF ppc[r] = "wp_trunc"
         THEN /\ ppc' = [ppc EXCEPT ![r] = "verify"]
              /\ UNCHANGED reason
         ELSE /\ ppc' = [ppc EXCEPT ![r] = "failed"]
              /\ reason' = [reason EXCEPT ![r] = "StorageError"]
    /\ snap' = [snap EXCEPT ![r] = EmptyVault]
    /\ tornRead' = FALSE
    /\ UNCHANGED <<file, idOf, cred, viaStored, afterFailed, produced>>
    /\ lastVerify' = NoVerify
    /\ UNCHANGED restP

\* registerWordPressAccount up to the POST: load, lookup (lines 134-139);
\* its failure is logged by registerAndPublish, which goes on (lines 202-207)
RegisterWordPressAccount(r) ==
    /\ ppc[r] = "wp_load"
    /\ tornRead' = PartialRead(file)
    /\ LET agents == loadAgents(file) IN
         IF agents[idOf[r]].present
           THEN /\ snap' = [snap EXCEPT ![r] = agents]
                /\ ppc' = [ppc EXCEPT ![r] = "wp_post"]
           ELSE /\ ppc' = [ppc EXCEPT ![r] = "verify"]
                /\ UNCHANGED snap
    /\ UNCHANGED <<file, idOf, cred, viaStored, reason, afterFailed, produced>>
    /\ lastVerify' = NoVerify
    /\ UNCHANGED restP

\* the response of axios.post (lines 156-193): accepted, or rejected
RegistrationResponse(r, accepted) ==
    /\ ppc[r] = "wp_post"
    /\ IF accepted
         THEN /\ snap' = [snap EXCEPT ![r][idOf[r]] = MarkRegistered(@)]
              /\ ppc' = [ppc EXCEPT ![r] = "wp_trunc"]
         ELSE /\ snap' = [snap EXCEPT ![r] = EmptyVault]
              /\ ppc' = [ppc EXCEPT ![r] = "verify"]
    /\ tornRead' = FALSE
    /\ UNCHANGED <<file, idOf, cred, viaStored, reason, afterFailed, produced>>
    /\ lastVerify' = NoVerify
    /\ UNCHANGED restP

\* what step 3 of registerAndPublish met: checkEmailVerification returned
\* success false (no message within the wait), or a message without a link in
\* it; or clickVerificationLink was called and reported failure, or success
VerifyResults == {"timeout", "noLink", "rejected", "visited"}

VerifyResult(found, link, clicked) ==
    IF ~found THEN "timeout"
    ELSE IF ~link THEN "noLink"
    ELSE IF ~clicked THEN "rejected"
    ELSE "visited"

\* checkEmailVerification and clickVerificationLink (registerAndPublish lines
\* 209-222): whatever they report is logged, and the run goes on to step 4
EmailVerification(r, found, link, clicked) ==
    /\ ppc[r] = "verify"
    /\ ppc' = [ppc EXCEPT ![r] = "gp_load"]
    /\ lastVerify' = [run |-> r, result |-> VerifyResult(found, link, clicked)]
    /\ tornRead' = FALSE
    /\ UNCHANGED <<file, snap, idOf, cred, viaStored, reason, afterFailed,
                   produced>>
    /\ UNCHANGED restP

\* generateApplicationPassword up to saveAgents (lines 208-220)
GenerateApplicationPassword(r) ==
    /\ ppc[r] = "gp_load"
    /\ tornRead' = PartialRead(file)
    /\ LET agents == loadAgents(file)
           agent == agents[idOf[r]] IN
         IF ~agent.present \/ ~agent.hasCredentials
           THEN /\ ppc' = [ppc EXCEPT ![r] = "failed"]
                /\ reason' = [reason EXCEPT ![r] = "NotRegistered"]
                /\ UNCHANGED snap
           ELSE /\ snap' = [snap EXCEPT ![r] =
                              [agents EXCEPT ![idOf[r]] = ActivateAgent(agent)]]
                /\ ppc' = [ppc EXCEPT ![r] = "gp_trunc"]
                /\ UNCHANGED reason
    /\ UNCHANGED <<file, idOf, cred, viaStored, afterFailed, produced>>
    /\ lastVerify' = NoVerify
    /\ UNCHANGED restP

\* step 5 of registerAndPublish: getAgentCredentials (lines 232-236), then publish
FinalCredentials(r) ==
    /\ ppc[r] = "fc_load"
    /\ tornRead' = PartialRead(file)
    /\ LET agent == loadAgents(file)[idOf[r]] IN
         IF CredentialsAvailable(agent)
           THEN /\ cred' = [cred EXCEPT ![r] = agent.appPassword]
                /\ ppc' = [ppc EXCEPT ![r] = "done"]
                /\ UNCHANGED reason
           ELSE /\ ppc' = [ppc EXCEPT ![r] = "failed"]
                /\ reason' = [reason EXCEPT ![r] = "NoFinalCredentials"]
                /\ UNCHANGED cred
    /\ UNCHANGED <<file, snap, idOf, viaStored, afterFailed, produced>>
    /\ lastVerify' = NoVerify
    /\ UNCHANGED restP

ProvisionNext ==
    \E r \in Runs :
        \/ GetCredentials(r)
        \/ RegisterAgent(r)
        \/ SaveTruncate(r)
        \/ \E mixed \in BOOLEAN : SaveWrite(r, mixed)
        \/ SaveFails(r)
        \/ RegisterWordPressAccount(r)
        \/ \E accepted \in BOOLEAN : RegistrationResponse(r, accepted)
        \/ \E found, link, clicked \in BOOLEAN : EmailVerification(r, found, link, clicked)
        \/ GenerateApplicationPassword(r)
        \/ FinalCredentials(r)

(***************************************************************************)
(* The CAPTCHA solver (CaptchaSolver.solveCaptcha / pollForSolution).      *)
(* Time is in milliseconds since pollForSolution read startTime.           *)
(***************************************************************************)
DefaultSolverTimeout == 120000
SolverPollInterval == 5000

OptSolverTimeouts == {0, 5000, 6000}    \* options.timeout: absent, 5 s, 6 s

\* how long one GET of res.php takes before it answers or fails (axios is
\* given no timeout)
RequestDurations == {0, 800}

CaptchaTypes == {"image", "recaptcha", "hcaptcha", "other"}

\* what one GET of res.php yields: status 1; request CAPCHA_NOT_READY; another
\* answer (the service's explicit failure); or a rejected request
PollResponses == {"ready", "notReady", "failure", "networkError"}

NoSolveResult == [success |-> FALSE, error |-> ""]

SolverInit ==
    /\ \E t \in OptSolverTimeouts : solverTimeout = OrDefault(t, DefaultSolverTimeout)
    /\ spc = "idle"
    /\ sElapsed = 0
    /\ jobFailed = FALSE
    /\ solveResult = NoSolveResult

\* solveCaptcha up to pollForSolution (lines 84-106): the switch on the type
\* and the submission, whose errors the catch turns into a failure result
SolveCaptcha(captchaType, submitted) ==
    /\ spc = "idle"
    /\ IF captchaType = "other"
         THEN /\ spc' = "returned"
              /\ solveResult' = [success |-> FALSE, error |-> "Unsupported CAPTCHA type"]
         ELSE IF ~submitted
         THEN /\ spc' = "returned"
              /\ solveResult' = [success |-> FALSE, error |-> "submission failed"]
         ELSE /\ spc' = "polling"
              /\ UNCHANGED solveResult
    /\ sElapsed' = 0
    /\ UNCHANGED <<solverTimeout, jobFailed>>
    /\ UNCHANGED restS

\* the loop condition of pollForSolution (line 235)
PollGuard == sElapsed < solverTimeout

\* one pass of the loop of pollForSolution (lines 236-258): the GET, taking d
\* ms, and what follows its answer.  The throw for an explicit failure (line
\* 252) is inside the try, so the catch (lines 255-258) logs it and sleeps.
PollForSolution(resp, d) ==
    /\ spc = "polling"
    /\ PollGuard
    /\ IF resp = "ready"
         THEN /\ spc' = "returned"
              /\ solveResult' = [success |-> TRUE, error |-> ""]
              /\ sElapsed' = sElapsed + d
              /\ UNCHANGED jobFailed
         ELSE /\ sElapsed' = sElapsed + d + SolverPollInterval
              /\ jobFailed' = (jobFailed \/ resp = "failure")
              /\ UNCHANGED <<spc, solveResult>>
    /\ UNCHANGED solverTimeout
    /\ UNCHANGED restS

\* the loop ends: pollForSolution throws (line 261) and the catch of
\* solveCaptcha returns the failure (lines 116-123)
SolveTimeout ==
    /\ spc = "polling"
    /\ ~PollGuard
    /\ spc' = "returned"
    /\ solveResult' = [success |-> FALSE, error |-> "CAPTCHA solving timeout"]
    /\ UNCHANGED <<solverTimeout, sElapsed, jobFailed>>
    /\ UNCHANGED restS

SolverNext ==
    \/ \E t \in CaptchaTypes, submitted \in BOOLEAN : SolveCaptcha(t, submitted)
    \/ \E resp \in PollResponses, d \in RequestDurations : PollForSolution(resp, d)
    \/ SolveTimeout


(***************************************************************************)
(* The email verifier (EmailVerifier.checkEmailVerification).              *)
(* Time is in milliseconds since checkEmailVerification read startTime.    *)
(***************************************************************************)
defaultWaitTime == 30000
checkInterval == 5000
HimalayaTimeout == 10000

OptWaitTimes == {0, 5000, 12000}    \* the argument timeout: absent, 5 s, 12 s

\* how long one searchForEmail takes: its query answers at once; its first
\* command runs into the 10 s limit of runHimalaya and the fallback answers
\* at once; or both commands run into the limit
SearchDurations == {0, HimalayaTimeout, 2 * HimalayaTimeout}

\* how one searchForEmail ends: a message with a link in it, a message without
\* one, no message, or a throw (both commands failed, or the message could
\* not be read)
SearchResults == {"found", "foundNoLink", "none", "error"}

NoVerifyResult == [success |-> FALSE, error |-> "", link |-> FALSE, attempts |-> 0]

VerifierInit ==
    /\ vTimeout = defaultWaitTime
    /\ vpc = "idle"
    /\ vElapsed = 0
    /\ vAttempts = 0
    /\ lastPoll = ""
    /\ failedPolls = 0
    /\ vResult = NoVerifyResult

\* checkEmailVerification up to the loop (lines 21-25)
CheckEmailVerification(t) ==
    /\ vpc = "idle"
    /\ vTimeout' = OrDefault(t, defaultWaitTime)
    /\ vpc' = "polling"
    /\ vElapsed' = 0
    /\ vAttempts' = 0
    /\ UNCHANGED <<lastPoll, failedPolls, vResult>>
    /\ UNCHANGED restV

\* the loop condition of checkEmailVerification (line 27)
WaitGuard == vElapsed < vTimeout

\* the catch block of the loop (lines 48-52): log, sleep, go round again
PollCatchGivesUp == [pc |-> "returned", wait |-> 0]
PollCatch == [pc |-> "polling", wait |-> checkInterval]

\* one pass of the loop (lines 28-52): searchForEmail, taking d ms, then the
\* return on a message, or the sleep
SearchForEmail(res, d) ==
    /\ vpc = "polling"
    /\ WaitGuard
    /\ vAttempts' = vAttempts + 1
    /\ lastPoll' = res
    /\ IF res \in {"found", "foundNoLink"}
         THEN /\ vpc' = "returned"
              /\ vElapsed' = vElapsed + d
              /\ vResult' = [success |-> TRUE, error |-> "", link |-> (res = "found"),
                             attempts |-> 0]
              /\ UNCHANGED failedPolls
         ELSE IF res = "none"
         THEN /\ vElapsed' = vElapsed + d + checkInterval
              /\ UNCHANGED <<vpc, vResult, failedPolls>>
         ELSE /\ vpc' = PollCatch.pc
              /\ vElapsed' = vElapsed + d + PollCatch.wait
              /\ failedPolls' = failedPolls + 1
              /\ vResult' = IF PollCatch.pc = "returned"
                               THEN [success |-> FALSE, error |-> "poll failed",
                                     link |-> FALSE, attempts |-> vAttempts + 1]
                               ELSE vResult
    /\ UNCHANGED vTimeout
    /\ UNCHANGED restV

\* the loop ends (lines 55-60)
VerificationTimeout ==
    /\ vpc = "polling"
    /\ ~WaitGuard
    /\ vpc' = "returned"
    /\ vResult' = [success |-> FALSE, error |-> "No verification email found",
                   link |-> FALSE, attempts |-> vAttempts]
    /\ UNCHANGED <<vTimeout, vElapsed, vAttempts, lastPoll, failedPolls>>
    /\ UNCHANGED restV

VerifierNext ==
    \/ \E t \in OptWaitTimes : CheckEmailVerification(t)
    \/ \E res \in SearchResults, d \in SearchDurations : SearchForEmail(res, d)
    \/ VerificationTimeout


(***************************************************************************)
(* EmailVerifier.extractVerificationLink.  A body is the sequence of its   *)
(* URLs, each named by the pattern it matches, and of its other words.     *)
(***************************************************************************)
\* the patterns of extractVerificationLink in the order of the array
\* (lines 248-253): wp-login.php?action=rp, wp-activate.php, /confirm, /verify
LinkPatterns == <<"reset", "activate", "confirm", "verify">>

\* a URL that matches none of the four patterns, and a word that is no URL
BodyTokens == {"reset", "activate", "confirm", "verify", "otherUrl", "word"}

Bodies == UNION { [1..n -> BodyTokens] : n \in 0..MaxBodyLen }

\* body.match(pattern)[0] for a global pattern: the first match in the body
\* (its position; 0 when match returns null)
FirstMatch(b, shapes) ==
    IF \E i \in 1..Len(b) : b[i] \in shapes
      THEN CHOOSE i \in 1..Len(b) :
             /\ b[i] \in shapes
             /\ \A j \in 1..(i - 1) : b[j] \notin shapes
      ELSE 0

\* the loop over the patterns (lines 255-260), from pattern number k on
RECURSIVE FirstPatternMatch(_, _)
FirstPatternMatch(b, k) ==
    IF k > Len(LinkPatterns) THEN 0
    ELSE IF FirstMatch(b, {LinkPatterns[k]}) # 0 THEN FirstMatch(b, {LinkPatterns[k]})
    ELSE FirstPatternMatch(b, k + 1)

\* extractVerificationLink (lines 243-270)
extractVerificationLink(b) ==
    IF Len(b) = 0 THEN 0
    ELSE IF FirstPatternMatch(b, 1) # 0 THEN FirstPatternMatch(b, 1)
    ELSE FirstMatch(b, BodyTokens \ {"word"})

ExtractInit ==
    /\ body \in Bodies
    /\ xpc = "idle"
    /\ verificationLink = 0

ExtractVerificationLink ==
    /\ xpc = "idle"
    /\ verificationLink' = extractVerificationLink(body)
    /\ xpc' = "returned"
    /\ UNCHANGED body
    /\ UNCHANGED restX

ExtractNext == ExtractVerificationLink


(***************************************************************************)
(* EnhancedBuddyClaw.processInput: one request handled by one process,     *)
(* with the vault to itself.  The steps of registerAndPublish are those of *)
(* the provisioning runs above, here taken in one go.                      *)
(***************************************************************************)
RequestFields ==
    {"wp_api_token", "wp_app_password", "wp_username", "wp_password",
     "agent_email", "dry_run"}

\* a request: the set of its fields that are present
Requests == SUBSET RequestFields

\* the record of agent_email in the vault when the request arrives
VaultAgents ==
    { NoAgent, NewAgent(1), MarkRegistered(NewAgent(1)), PriorAgent }

NoResponse == [success |-> FALSE, dry_run |-> FALSE, auth_method |-> "",
               posted |-> FALSE]

\* determineAuthMethod (lines 46-59); "none" stands for the throw
determineAuthMethod(data) ==
    IF "wp_api_token" \in data THEN "api_token"
    ELSE IF "wp_app_password" \in data THEN "app_password"
    ELSE IF "wp_username" \in data /\ "wp_password" \in data THEN "basic_auth"
    ELSE IF "agent_email" \in data THEN "multi_agent"
    ELSE "none"

\* the credentials publishToWordPress needs for a method (lines 305-329)
HasCredentialsFor(data, method) ==
    CASE method = "api_token"    -> "wp_api_token" \in data
      [] method = "app_password" -> "wp_username" \in data /\ "wp_app_password" \in data
      [] method = "basic_auth"   -> "wp_username" \in data /\ "wp_password" \in data
      [] OTHER                   -> FALSE

\* publishToWordPress(data, authMethod) (lines 261-418); accepted: the site
\* accepts the POST
publishToWordPress(data, method, accepted) ==
    IF "dry_run" \in data
      THEN [success |-> TRUE, dry_run |-> TRUE, auth_method |-> "", posted |-> FALSE]
    ELSE IF ~HasCredentialsFor(data, method)
      THEN [success |-> FALSE, dry_run |-> FALSE, auth_method |-> method,
            posted |-> FALSE]
    ELSE [success |-> accepted, dry_run |-> FALSE, auth_method |-> method,
          posted |-> TRUE]

\* the object processMultiAgentRequest (lines 79-87) and registerAndPublish
\* (lines 238-246) hand to publishToWordPress: the agent's credentials and the
\* content, and no other field of the request
AgentPublishData == {"wp_username", "wp_app_password"}

Failure == [success |-> FALSE, dry_run |-> FALSE, auth_method |-> "", posted |-> FALSE]

\* registerAndPublish (lines 186-259) on the record `agent` of the vault:
\* the record it leaves, whether the registration POST was sent, its result
registerAndPublish(agent, registered, accepted) ==
    IF agent.present
      THEN [agent |-> agent, registrationPosted |-> FALSE, result |-> Failure]
    ELSE LET created == NewAgent(1)
             after == IF registered THEN MarkRegistered(created) ELSE created
         IN  IF ~after.hasCredentials
               THEN [agent |-> after, registrationPosted |-> TRUE, result |-> Failure]
             ELSE [agent |-> ActivateAgent(after), registrationPosted |-> TRUE,
                   result |-> [publishToWordPress(AgentPublishData, "app_password",
                                                  accepted)
                                 EXCEPT !.auth_method = "multi_agent"]]

PosterInit ==
    /\ request \in Requests
    /\ vaultAgent \in VaultAgents
    /\ qpc = "idle"
    /\ response = NoResponse
    /\ registrationPosted = FALSE
    /\ publishPosted = FALSE

\* processInput (lines 21-44).  tokenValid: GET /users/me succeeds;
\* registered: the site accepts the registration; accepted: the site accepts
\* the publishing POST
ProcessInput(tokenValid, registered, accepted) ==
    /\ qpc = "idle"
    /\ qpc' = "returned"
    /\ LET authMethod == determineAuthMethod(request) IN
         IF authMethod = "none"
           THEN /\ response' = Failure
                /\ UNCHANGED <<vaultAgent, registrationPosted>>
         ELSE IF "agent_email" \in request
           THEN IF CredentialsAvailable(vaultAgent)
                  THEN /\ response' =
                            [publishToWordPress(AgentPublishData, "app_password", accepted)
                               EXCEPT !.auth_method = "multi_agent"]
                       /\ UNCHANGED <<vaultAgent, registrationPosted>>
                  ELSE LET rp == registerAndPublish(vaultAgent, registered, accepted) IN
                       /\ response' = rp.result
                       /\ vaultAgent' = rp.agent
                       /\ registrationPosted' = rp.registrationPosted
         ELSE IF authMethod = "api_token" /\ ~tokenValid
           THEN /\ response' = [Failure EXCEPT !.auth_method = "api_token"]
                /\ UNCHANGED <<vaultAgent, registrationPosted>>
         ELSE /\ response' =
                   [publishToWordPress(request \cup (IF authMethod = "api_token"
                                                       THEN {"wp_username"} ELSE {}),
                                       authMethod, accepted)
                      EXCEPT !.auth_method = authMethod]
              /\ UNCHANGED <<vaultAgent, registrationPosted>>
    /\ publishPosted' = response'.posted
    /\ UNCHANGED request
    /\ UNCHANGED restQ

PosterNext == \E tokenValid, registered, accepted \in BOOLEAN :
                  ProcessInput(tokenValid, registered, accepted)


(***************************************************************************)
(* OpenClawIntegration.handleSetup: the chat onboarding of one user, one   *)
(* message per call                                                        *)
(***************************************************************************)
MaxInputs == 8

\* the messages a user sends
SetupInputs ==
    {"setup", "continue", "no", "yes", "https://testsite.com", "1", "2", "4",
     "testuser", "skip", "yes yes yes no", " "}

\* the inputs of testInteractiveOnboarding, in order
OnboardingScript ==
    <<"setup", "continue", "no", "https://testsite.com", "1", "testuser", "skip",
      "yes yes yes no">>

\* command.raw.trim()
Trim(raw) == IF raw = " " THEN "" ELSE raw

\* which of the strings the handler searches for occur in raw.toLowerCase()
RawIncludes(raw) ==
    CASE raw = "continue"       -> {"continue", "n"}
      [] raw = "no"             -> {"no", "n"}
      [] raw = "yes"            -> {"yes", "y"}
      [] raw = "skip"           -> {"skip"}
      [] raw = "yes yes yes no" -> {"yes", "y", "no", "n"}
      [] OTHER                  -> {}

\* the table authMethods of the auth_method step (lines 400-405)
authMethods(choice) ==
    CASE choice = "1" -> "application_password"
      [] choice = "2" -> "rest_api_token"
      [] choice = "3" -> "basic_auth"
      [] choice = "4" -> "multi_agent"
      [] OTHER        -> ""

\* content_prefs: raw.trim().toLowerCase().split(/\s+/).map(p => p === 'yes'),
\* first four entries; "undefined" where the answer has fewer words
ParsePrefs(raw) ==
    CASE raw = "yes yes yes no" -> <<"true", "true", "true", "false">>
      [] raw = "yes"            -> <<"true", "undefined", "undefined", "undefined">>
      [] OTHER                  -> <<"false", "undefined", "undefined", "undefined">>

NoPrefs == <<"undefined", "undefined", "undefined", "undefined">>

\* session.config of a new session: {}
EmptyConfig ==
    [site_url |-> "", auth_method |-> "", username |-> "", applicationPassword |-> "",
     password |-> "", apiToken |-> "", agent_email |-> "", captcha_key |-> "",
     prefs |-> NoPrefs]

NoConfigFile == [written |-> FALSE, siteUrl |-> "", authMethod |-> "",
                 captchaEnabled |-> FALSE]

\* saveOnboardingConfig (lines 630-690): the file it writes
saveOnboardingConfig(config) ==
    [written |-> TRUE,
     siteUrl |-> config.site_url,
     authMethod |-> IF config.auth_method = "" THEN "application_password"
                    ELSE config.auth_method,
     captchaEnabled |-> config.captcha_key # ""]

\* a response of handleInteractiveOnboarding: data.next_step ("" when
\* absent), data.onboarding_complete, and how its answer is to be stored
\* ("" nothing, "raw" under store_answer, "handler", "prefs")
Step(next, store) ==
    [returned |-> TRUE, next_step |-> next, store |-> store,
     onboarding_complete |-> next = "complete"]

\* the switch fell through a break: the function returns undefined
Undefined == [returned |-> FALSE, next_step |-> "", store |-> "",
              onboarding_complete |-> FALSE]

\* handleInteractiveOnboarding(step, command, session) (lines 310-608)
handleInteractiveOnboarding(step, raw, vaultExists) ==
    CASE step = "welcome" -> Step("vault_check", "")
      [] step = "vault_check" ->
           IF "continue" \in RawIncludes(raw) THEN Step("vault_response", "")
           ELSE Undefined
      [] step = "vault_response" ->
           IF "yes" \in RawIncludes(raw) \/ "y" \in RawIncludes(raw)
             THEN IF vaultExists THEN Step("use_vault_creds", "")
                  ELSE Step("site_url", "")
           ELSE IF "no" \in RawIncludes(raw) \/ "n" \in RawIncludes(raw)
                   \/ "skip" \in RawIncludes(raw)
             THEN Step("site_url", "")
           ELSE Step("vault_response", "")
      [] step = "site_url" ->
           IF Trim(raw) # "" THEN Step("auth_method", "raw") ELSE Undefined
      [] step = "auth_method" ->
           IF authMethods(Trim(raw)) # ""
             THEN Step(CASE authMethods(Trim(raw)) = "rest_api_token" -> "auth_token"
                         [] authMethods(Trim(raw)) = "multi_agent" -> "agent_email"
                         [] OTHER -> "auth_username",
                       "handler")
           ELSE Step("auth_method", "")
      [] step = "auth_username" ->
           IF Trim(raw) # "" THEN Step("auth_secret", "handler")
           ELSE Step("auth_username", "")
      [] step = "auth_secret" ->
           IF Trim(raw) # "" THEN Step("captcha_config", "handler")
           ELSE Step("auth_secret", "")
      [] step = "auth_token" ->
           IF Trim(raw) # "" THEN Step("captcha_config", "handler")
           ELSE Step("auth_token", "")
      [] step = "agent_email" ->
           IF Trim(raw) # "" THEN Step("captcha_config", "handler")
           ELSE Step("agent_email", "")
      [] step = "captcha_config" ->
           IF Trim(raw) # "" /\ "skip" \notin RawIncludes(raw)
             THEN Step("content_prefs", "raw")
           ELSE Step("content_prefs", "")
      [] step = "content_prefs" -> Step("complete", "prefs")
      [] OTHER -> Step("welcome", "")

\* the store_handler of step, or the plain store under store_answer, applied
\* to session.config with the trimmed answer (handleSetup lines 281-289)
StoreAnswer(config, step, store, raw) ==
    CASE store = "prefs" -> [config EXCEPT !.prefs = ParsePrefs(raw)]
      [] store = "raw" /\ step = "site_url" -> [config EXCEPT !.site_url = Trim(raw)]
      [] store = "raw" /\ step = "captcha_config" ->
           [config EXCEPT !.captcha_key = Trim(raw)]
      [] store = "handler" /\ step = "auth_method" ->
           [config EXCEPT !.auth_method = authMethods(Trim(raw))]
      [] store = "handler" /\ step = "auth_username" ->
           [config EXCEPT !.username = Trim(raw)]
      [] store = "handler" /\ step = "auth_secret" ->
           IF config.auth_method \in {"", "application_password"}
             THEN [config EXCEPT !.applicationPassword = Trim(raw)]
             ELSE [config EXCEPT !.password = Trim(raw)]
      [] store = "handler" /\ step = "auth_token" ->
           [config EXCEPT !.auth_method = "rest_api_token", !.apiToken = Trim(raw)]
      [] store = "handler" /\ step = "agent_email" ->
           [config EXCEPT !.agent_email = Trim(raw), !.auth_method = "multi_agent"]
      [] OTHER -> config

\* what handleSetup returned: "" before the first call, "configured" for the
\* already-configured message, "threw" for Setup failed, "step" otherwise
NoSetupResponse == [kind |-> "", next_step |-> "", onboarding_complete |-> FALSE]

OnboardInit ==
    /\ openclawCompleted \in BOOLEAN
    /\ onboardingStep = "none"
    /\ sessionConfig = EmptyConfig
    /\ savedConfig = NoConfigFile
    /\ setupResponse = NoSetupResponse
    /\ nInputs = 0
    /\ followed = 0

\* handleSetup(command) (lines 243-305); vaultExists: checkVaultExists()
HandleSetup(raw, vaultExists) ==
    /\ nInputs < MaxInputs
    /\ nInputs' = nInputs + 1
    /\ followed' = IF followed >= 0 /\ followed < Len(OnboardingScript)
                      /\ raw = OnboardingScript[followed + 1]
                     THEN followed + 1 ELSE -1
    /\ IF openclawCompleted
         THEN /\ setupResponse' = [NoSetupResponse EXCEPT !.kind = "configured"]
              /\ UNCHANGED <<onboardingStep, sessionConfig, savedConfig>>
         ELSE LET step == IF onboardingStep = "none" THEN "welcome" ELSE onboardingStep
                  config == IF onboardingStep = "none" THEN EmptyConfig ELSE sessionConfig
                  resp == handleInteractiveOnboarding(step, raw, vaultExists)
                  stored == StoreAnswer(config, step, resp.store, raw)
              IN  IF ~resp.returned
                    THEN /\ setupResponse' = [NoSetupResponse EXCEPT !.kind = "threw"]
                         /\ UNCHANGED <<onboardingStep, sessionConfig, savedConfig>>
                    ELSE /\ setupResponse' =
                              [kind |-> "step", next_step |-> resp.next_step,
                               onboarding_complete |-> resp.onboarding_complete]
                         /\ IF resp.onboarding_complete
                              THEN /\ savedConfig' = saveOnboardingConfig(stored)
                                   /\ onboardingStep' = "none"
                                   /\ sessionConfig' = EmptyConfig
                              ELSE /\ onboardingStep' = resp.next_step
                                   /\ sessionConfig' = stored
                                   /\ UNCHANGED savedConfig
    /\ UNCHANGED openclawCompleted
    /\ UNCHANGED restO

OnboardNext == \E raw \in SetupInputs, vaultExists \in BOOLEAN :
                   HandleSetup(raw, vaultExists)


(***************************************************************************)
(* Specifications                                                          *)
(***************************************************************************)
\* the provisioning side at rest, for the Recovery Engine's specification
ProvisionParked ==
    /\ ProvisionInit
    /\ idOf = [r \in Runs |-> "a@x.com"]
    /\ file.agents = EmptyVault

\* the Recovery Engine at rest, for the provisioning specification
RecoveryParked ==
    /\ RecoveryInit
    /\ maxRetries = DefaultMaxRetries
    /\ retryDelay = DefaultRetryDelay
    /\ exponentialBackoff = TRUE
    /\ maxHistorySize = DefaultHistorySize

\* the solver, the verifier and the link extraction at rest
SolverParked == SolverInit /\ solverTimeout = DefaultSolverTimeout
VerifierParked == VerifierInit
ExtractParked == ExtractInit /\ body = <<>>
PosterParked == PosterInit /\ request = {} /\ vaultAgent = NoAgent
OnboardParked == OnboardInit /\ ~openclawCompleted

InitRecovery == RecoveryInit /\ ProvisionParked /\ SolverParked /\ VerifierParked /\ ExtractParked
    /\ PosterParked /\ OnboardParked
SpecRecovery == InitRecovery /\ [][RecoveryNext]_vars

InitProvision == ProvisionInit /\ RecoveryParked /\ SolverParked /\ VerifierParked /\ ExtractParked
    /\ PosterParked /\ OnboardParked
SpecProvision == InitProvision /\ [][ProvisionNext]_vars

InitSolver == SolverInit /\ RecoveryParked /\ ProvisionParked /\ VerifierParked /\ ExtractParked
    /\ PosterParked /\ OnboardParked
SpecSolver == InitSolver /\ [][SolverNext]_vars

InitVerifier == VerifierInit /\ RecoveryParked /\ ProvisionParked /\ SolverParked /\ ExtractParked
    /\ PosterParked /\ OnboardParked
SpecVerifier == InitVerifier /\ [][VerifierNext]_vars

InitExtract ==
    ExtractInit /\ RecoveryParked /\ ProvisionParked /\ SolverParked /\ VerifierParked
    /\ PosterParked /\ OnboardParked
SpecExtract == InitExtract /\ [][ExtractNext]_vars

InitPoster ==
    PosterInit /\ RecoveryParked /\ ProvisionParked /\ SolverParked /\ VerifierParked
    /\ ExtractParked /\ OnboardParked
SpecPoster == InitPoster /\ [][PosterNext]_vars

InitHistory ==
    HistoryInit /\ ProvisionParked /\ SolverParked /\ VerifierParked /\ ExtractParked
    /\ PosterParked /\ OnboardParked
SpecHistory == InitHistory /\ [][HistoryNext]_vars

InitOnboard ==
    OnboardInit /\ RecoveryParked /\ ProvisionParked /\ SolverParked /\ VerifierParked
    /\ ExtractParked /\ PosterParked
SpecOnboard == InitOnboard /\ [][OnboardNext]_vars


(***************************************************************************)
(* Properties of the Recovery Engine (checked under SpecRecovery)          *)
(***************************************************************************)

\* C1: one attemptRecovery call invokes the strategy's handler at most
\* maxRetries times.
C1_HandlerCallsBounded == handlerCalls <= maxRetries

\* C1 witness: a call that used all of the default five attempts and gave up.
C1_Witness ==
    /\ rpc = "returned"
    /\ outcome.kind = "ExhaustedRetries"
    /\ maxRetries = DefaultMaxRetries
    /\ handlerCalls = DefaultMaxRetries

\* C4 as stated: the backoff waited before attempt k (k >= 2) is
\* retryDelay * 2^(k-1) with backoff enabled, retryDelay otherwise.
C4_DelayBeforeAttemptAsStated ==
    \A k \in 2..Len(waitedBefore) :
        waitedBefore[k] = IF exponentialBackoff THEN retryDelay * Pow2(k - 1)
                                                ELSE retryDelay

\* C4 amended: nothing is waited before attempt 1; the backoff waited after
\* failed attempt k, that is before attempt k+1, is retryDelay * 2^(k-1) with
\* backoff enabled and retryDelay otherwise.
C4_DelayAfterAttempt ==
    /\ Len(waitedBefore) >= 1 => waitedBefore[1] = 0
    /\ \A k \in 1..(Len(waitedBefore) - 1) :
         waitedBefore[k + 1] = IF exponentialBackoff THEN retryDelay * Pow2(k - 1)
                                                     ELSE retryDelay

\* C4 witness: a third attempt reached under backoff, after waiting twice the
\* base delay.
C4_Witness ==
    /\ exponentialBackoff
    /\ Len(waitedBefore) >= 3
    /\ waitedBefore[2] = retryDelay
    /\ waitedBefore[3] = 2 * retryDelay

C20_AuthenticationFirst ==
    (/\ rpc \in {"loop", "sleeping", "returned"}
     /\ error # NoMessage
     /\ (Includes(error, "401") \/ Includes(error, "unauthorized")))
    => (/\ strategy = "authentication_error"
        /\ errorHistory[Len(errorHistory)].type = "authentication_error")

\* C20 witness: a message holding "unauthorized" next to the keywords of the
\* authorization, rate-limit and server rules was classified.
C20_Witness ==
    /\ rpc = "loop"
    /\ error = "Unauthorized: 403 Forbidden, rate limit 429, server 500"
    /\ Includes(error, "unauthorized") /\ Includes(error, "403")
    /\ strategy = "authentication_error"

\* a call has classified its error: the message was a string
Classified == rpc \in {"loop", "sleeping", "returned"} /\ error # NoMessage

\* a rule placed before the rate-limit rule matches the error
EarlierThanRateLimit(m, code) ==
    \/ AuthenticationRule(m, code) \/ AuthorizationRule(m, code)
    \/ CaptchaRule(m, code) \/ MembershipRule(m, code)
    \/ NetworkRule(m, code) \/ ContentRule(m, code)

\* C21 as stated: an error whose message contains "429" is classified as a
\* rate-limit error, whatever else the message contains.
C21_RateLimitWhateverElse ==
    (Classified /\ Includes(error, "429")) => strategy = "rate_limit_error"

\* C21 amended: an error whose message contains "429" is classified as a
\* rate-limit error when none of the six rules tested before (authentication,
\* authorization, captcha, membership, network, content) matches it, and as the
\* kind of the first of these that matches otherwise.
C21_RateLimitAfterEarlierRules ==
    (Classified /\ Includes(error, "429")) =>
        /\ ~EarlierThanRateLimit(error, errorCode) => strategy = "rate_limit_error"
        /\ EarlierThanRateLimit(error, errorCode) =>
              strategy \in {"authentication_error", "authorization_error",
                            "captcha_error", "membership_error", "network_error",
                            "content_error"}

\* C21 witness: a message holding "429" and no other keyword was classified as
\* a rate-limit error.
C21_Witness ==
    /\ Classified
    /\ Keywords(error) = {"429"}
    /\ errorCode = NoCode
    /\ strategy = "rate_limit_error"

\* the messages that contain an HTTP status code from 500 to 599
Status5xxMessages ==
    { "500 internal server error",
      "Unauthorized: 403 Forbidden, rate limit 429, server 500",
      "Request failed with status code 502" }

\* C22: an error whose message contains a status code from 500 to 599 is
\* classified as a server error.
C22_ServerOn5xx ==
    (Classified /\ error \in Status5xxMessages) => strategy = "server_error"

\* a rule of classifyError matches the error
SomeRuleMatches(m, code) ==
    \/ EarlierThanRateLimit(m, code)
    \/ RateLimitRule(m, code)
    \/ ServerRule(m, code)

\* C23: classifyError is total: every call classifies its error as one of the
\* nine kinds without throwing, and as unknown exactly when no rule matches.
C23_ClassifyTotal ==
    rpc # "idle" =>
        /\ outcome.kind # "SystemError"
        /\ strategy \in ErrorKinds
        /\ (strategy = "unknown_error") <=> ~SomeRuleMatches(error, errorCode)

\* C24: a call whose attempts all failed returns ExhaustedRetries with an
\* attempt count of maxRetries and the error the last attempt's handler
\* reported.
C24_ExhaustedCarriesLastError ==
    (rpc = "returned" /\ outcome.kind = "ExhaustedRetries") =>
        /\ outcome.attempts = maxRetries
        /\ handlerCalls = maxRetries
        /\ \E solved \in BOOLEAN, prev \in {error, outcome.error} :
              LET result == Handler(strategy, prev, context, solved) IN
                /\ ~result.success
                /\ outcome.error = IF result.error = "" THEN "Recovery attempt failed"
                                                         ELSE result.error

\* C24 witness: five attempts at an authentication error failed and the call
\* reports the handler's error, which is not the error it was given.
C24_Witness ==
    /\ rpc = "returned"
    /\ outcome.kind = "ExhaustedRetries"
    /\ outcome.attempts = DefaultMaxRetries
    /\ outcome.error = "Unable to resolve authentication issue"
    /\ error # outcome.error

\* C25: the call with the message "Request failed with status 403: forbidden"
\* and context.groupId = "g1" is classified as an authorization error, joins
\* the group at its first attempt and returns Recovered with the data
\* { joined: true, groupId: "g1" }.
C25_ForbiddenWithGroupRecovers ==
    (/\ Classified
     /\ error = "Request failed with status 403: forbidden"
     /\ context = Ctx({"groupId"}))
    => /\ strategy = "authorization_error"
       /\ rpc \in {"loop", "returned"}
       /\ rpc = "loop" => handlerCalls = 0
       /\ rpc = "returned" =>
             /\ outcome.kind = "Recovered"
             /\ handlerCalls = 1
             /\ outcome.data = [tag |-> "joined", joined |-> TRUE, groupId |-> "g1"]

\* C25 witness: that call has returned Recovered.
C25_Witness ==
    /\ rpc = "returned"
    /\ error = "Request failed with status 403: forbidden"
    /\ context = Ctx({"groupId"})
    /\ outcome.kind = "Recovered"
    /\ outcome.data.groupId = "g1"

(***************************************************************************)
(* Properties of the vault and the provisioning runs (SpecProvision)       *)
(***************************************************************************)

\* C2: runs that all provision one identity never derive two different
\* credentials for it.
C2_OneCredentialPerIdentity ==
    (\A r, q \in Runs : idOf[r] = idOf[q]) =>
        \A i \in Identities : Cardinality(produced[i]) <= 1

\* C3: in every persisted agent record the app password is set if and only if
\* the status is active.
C3_CredentialIffActive ==
    \A i \in Identities :
        file.agents[i].present =>
            ((file.agents[i].appPassword # 0) <=> (file.agents[i].status = "active"))

\* C3 witness: the vault holds an active agent next to one that is not active.
C3_Witness ==
    /\ ~file.torn
    /\ \E i, j \in Identities :
         /\ file.agents[i].status = "active"
         /\ file.agents[i].appPassword # 0
         /\ file.agents[j].status = "registered"

\* C5: a run that begins while its identity is active ends at once with the
\* stored credential and leaves the vault as it was.
C5_ActiveIsIdempotent ==
    [][\A r \in Runs :
         (/\ ppc[r] = "getCreds"
          /\ ppc'[r] # "getCreds"
          /\ CredentialsAvailable(file.agents[idOf[r]]))
         => (/\ ppc'[r] = "done"
             /\ cred'[r] = file.agents[idOf[r]].appPassword
             /\ file' = file)]_vars

\* C7: a run that begins after a run for the same identity has failed is not
\* stopped by what the failed run left behind.
C7_FailedRunDoesNotBlock ==
    \A r \in Runs : afterFailed[r] => reason[r] # "AgentExists"

\* a run that has created its record and has not ended
InFlight(r) ==
    ppc[r] \in {"wp_load", "wp_post", "wp_trunc", "wp_write", "verify",
                "gp_load", "gp_trunc", "gp_write", "fc_load"}

\* C8: once a run that registered its agent has failed, and no other run for
\* the identity is under way, the record is not left pending or registered.
C8_FailedRunMarksFailed ==
    \A r \in Runs :
        (/\ ppc[r] = "failed"
         /\ reason[r] # "AgentExists"
         /\ \A q \in Runs \ {r} : idOf[q] = idOf[r] => ppc[q] \in {"getCreds", "done", "failed"})
        => file.agents[idOf[r]].status \notin {"pending_registration", "registered"}

\* C9: at most one run per identity is between creating the record and its end.
C9_MutualExclusion ==
    \A r, q \in Runs :
        (r # q /\ idOf[r] = idOf[q]) => ~(InFlight(r) /\ InFlight(q))

\* C10: no loadAgents() ever reads agents.json between the truncation and the
\* write of a saveAgents().
C10_NoPartialRead == ~tornRead


\* the steps at which a run calls loadAgents(), and those at which it calls
\* saveAgents()
LoadPositions == {"getCreds", "ra_load", "wp_load", "gp_load", "fc_load"}
SavePositions == {"ra_trunc", "wp_trunc", "gp_trunc"}
WritePositions == {"ra_write", "wp_write", "gp_write"}

\* C11: a vault operation whose storage access fails (a read of a file that
\* does not parse, a write that cannot be made) ends the calling run, which
\* fails with StorageError.
C11_StorageFailureIsFatal ==
    [][\A r \in Runs :
         /\ (ppc[r] \in LoadPositions /\ ppc'[r] # ppc[r] /\ file.torn)
              => (ppc'[r] = "failed" /\ reason'[r] = "StorageError")
         /\ (ppc[r] \in SavePositions /\ ppc'[r] \notin SavePositions \cup WritePositions)
              => (ppc'[r] = "failed" /\ reason'[r] = "StorageError")]_vars


\* C12: a run whose wait for the verification message ended without a message
\* ends there, failed with VerificationTimeout, and derives no credential.
C12_VerificationTimeoutFails ==
    \A r \in Runs :
        lastVerify = [run |-> r, result |-> "timeout"]
            => (ppc[r] = "failed" /\ reason[r] = "VerificationTimeout")

\* C13: a run whose visit of the verification link failed ends there, failed
\* with VerificationLinkRejected, and its agent does not become active.
C13_RejectedLinkFails ==
    \A r \in Runs :
        lastVerify = [run |-> r, result |-> "rejected"]
            => (ppc[r] = "failed" /\ reason[r] = "VerificationLinkRejected")


\* C14: a run whose registration the site did not accept (the record is still
\* pending_registration when step 4 reads it) treats the identity as
\* pre-existing: the password it knows yields the credential and the agent is
\* made active.
C14_RegistrationDisabledStillActivates ==
    [][\A r \in Runs :
         (/\ ppc[r] = "gp_load"
          /\ ppc'[r] # "gp_load"
          /\ ~file.torn
          /\ file.agents[idOf[r]].present
          /\ file.agents[idOf[r]].status = "pending_registration"
          /\ file.agents[idOf[r]].password # 0)
         => (/\ ppc'[r] = "gp_trunc"
             /\ snap'[r][idOf[r]].status = "active"
             /\ snap'[r][idOf[r]].appPassword = file.agents[idOf[r]].password)]_vars

\* the place of a record's status in the order of the provisioning states
StatusRank(agent) ==
    CASE ~agent.present                          -> 0
      [] agent.status = "pending_registration"  -> 1
      [] agent.status = "registered"            -> 2
      [] agent.status = "active"                -> 3
      [] OTHER                                   -> 0

\* C15: no step moves the stored record of an agent to an earlier provisioning
\* state.
C15_NoBackwardTransition ==
    [][\A i \in Identities :
         StatusRank(file'.agents[i]) >= StatusRank(file.agents[i])]_vars


(***************************************************************************)
(* Properties of the CAPTCHA solver (checked under SpecSolver)             *)
(***************************************************************************)

\* C16: once the service has reported an explicit failure for the job,
\* polling is over: solveCaptcha has returned an error.
C16_StopsOnExplicitFailure ==
    jobFailed => (spc = "returned" /\ ~solveResult.success)

\* C17: when the service never reports ready nor an explicit failure,
\* solveCaptcha returns the timeout error no later than this.timeout plus one
\* poll interval after polling began.
C17_TimeoutWithinOneInterval ==
    (spc = "returned" /\ ~jobFailed /\ solveResult.error = "CAPTCHA solving timeout")
        => sElapsed <= solverTimeout + SolverPollInterval

(***************************************************************************)
(* Properties of the email verifier (checked under SpecVerifier)           *)
(***************************************************************************)

\* C18: when no message arrives, checkEmailVerification returns within
\* timeout + checkInterval of being called, whatever its polls did.
C18_ReturnsWithinOneInterval ==
    (vpc = "returned" /\ ~vResult.success) => vElapsed <= vTimeout + checkInterval

\* C19: a searchForEmail that throws never ends checkEmailVerification:
\* polling goes on after it, and the one failure result, the timeout, is
\* returned only once the wait has lasted timeout or longer.
C19_FailedPollNeverEnds ==
    /\ (lastPoll = "error" /\ vElapsed < vTimeout) => vpc = "polling"
    /\ (vpc = "returned" /\ ~vResult.success)
         => (vResult.error = "No verification email found" /\ vElapsed >= vTimeout)
    /\ (vpc = "returned" /\ vResult.success) => lastPoll \in {"found", "foundNoLink"}

\* C19 witness: two polls threw, a later poll found the mailbox empty, and the
\* call returned the timeout.
C19_Witness ==
    /\ vpc = "returned"
    /\ ~vResult.success
    /\ failedPolls >= 2
    /\ lastPoll = "none"
    /\ vAttempts > failedPolls


(***************************************************************************)
(* Properties of the link extraction (checked under SpecExtract)           *)
(***************************************************************************)
KnownShapes == {"reset", "activate", "confirm", "verify"}

\* C26: the URL returned is the first URL of the body that matches any of the
\* four verification patterns and, only when no URL matches one, the first URL
\* of the body.
C26_FirstKnownShapeInBody ==
    xpc = "returned" =>
        verificationLink = IF FirstMatch(body, KnownShapes) # 0
            THEN FirstMatch(body, KnownShapes)
            ELSE FirstMatch(body, BodyTokens \ {"word"})


(***************************************************************************)
(* Properties of the request handling (checked under SpecPoster)           *)
(***************************************************************************)
\* the authentication methods a request supplies credentials for
MethodsPresent(data) ==
    {m \in {"api_token", "app_password", "basic_auth", "multi_agent"} :
        CASE m = "api_token"    -> "wp_api_token" \in data
          [] m = "app_password" -> "wp_app_password" \in data
          [] m = "basic_auth"   -> "wp_username" \in data /\ "wp_password" \in data
          [] OTHER              -> "agent_email" \in data}

\* the order API Token > Application Password > Basic Auth > Multi-Agent
Highest(ms) ==
    IF "api_token" \in ms THEN "api_token"
    ELSE IF "app_password" \in ms THEN "app_password"
    ELSE IF "basic_auth" \in ms THEN "basic_auth"
    ELSE "multi_agent"

\* C27: a request with dry_run, whatever its authentication method, an agent
\* not yet active included, returns success and dry_run true, and sends
\* neither a registration nor a publishing request to the site.
C27_DryRunDoesNothing ==
    (qpc = "returned" /\ "dry_run" \in request /\ MethodsPresent(request) # {})
        => /\ response.success
           /\ response.dry_run
           /\ ~registrationPosted
           /\ ~publishPosted

\* C28: a request with credentials for more than one method is handled and
\* reported under the one that comes first in the order API Token >
\* Application Password > Basic Auth > Multi-Agent.
C28_HighestPriorityMethod ==
    (qpc = "returned" /\ Cardinality(MethodsPresent(request)) > 1)
        => response.auth_method = Highest(MethodsPresent(request))

\* C29: right after registerAgent has succeeded for a new identity (its record
\* is saved), getAgentCredentials for that identity succeeds.
C29_CredentialsAfterRegisterAgent ==
    [][\A r \in Runs :
          (ppc[r] = "ra_write" /\ ppc'[r] = "wp_load" /\ ~file'.torn)
              => CredentialsAvailable(loadAgents(file')[idOf[r]])]_vars


(***************************************************************************)
(* Properties of the chat onboarding (checked under SpecOnboard)           *)
(***************************************************************************)
\* C30: on an unconfigured installation and a fresh session, after the eight
\* inputs setup, continue, no, a site URL, 1, a username, skip,
\* "yes yes yes no" the last response has onboarding_complete, the
\* configuration is saved, and CAPTCHA solving is off in it.
C30_EightInputsComplete ==
    (~openclawCompleted /\ followed = Len(OnboardingScript))
        => /\ setupResponse.onboarding_complete
           /\ savedConfig.written
           /\ ~savedConfig.captchaEnabled

(***************************************************************************)
(* Further properties of the Recovery Engine (checked under SpecRecovery,  *)
(* C34 and C37 under SpecHistory)                                          *)
(***************************************************************************)
\* C31: within one recover call, when an attempt has failed with a new error
\* and another attempt follows, the strategy applied to that attempt is the one
\* of the kind the new error classifies as (the new error carries no code).
C31_NextAttemptUsesNewErrorKind ==
    (rpc = "loop" /\ attempts >= 1 /\ LoopGuard)
        => strategy = classifyError(lastError, NoCode)

\* C33: every invocation of recover appends exactly one record, that of the
\* error it was called with, to the error history, whatever its outcome.
C33_OneRecordPerCall ==
    [][calls' = calls + 1
          => /\ Len(errorHistory') > 0
             /\ errorHistory'[Len(errorHistory')].message = error'
             /\ \/ Len(errorHistory') = Len(errorHistory) + 1
                \/ Len(errorHistory) = maxHistorySize]_vars

C35_DelaysOnlyBetweenAttempts ==
    (rpc = "returned" /\ attempts >= 1)
        => /\ Len(waitedBefore) = attempts
           /\ waitedBefore[1] = 0
           /\ \A k \in 2..attempts : waitedBefore[k] > 0
           /\ lastSleep = 0

\* C36: the rate-limit strategy sleeps N seconds when the error text holds
\* "retry after N", for every N >= 0, and 60 seconds when it holds no such
\* hint, and then reports success.
C36_SleepsAsHinted ==
    (rpc = "returned" /\ outcome.kind = "Recovered" /\ strategy = "rate_limit_error")
        => handlerSleep = IF extractRetryAfter(error) >= 0
                            THEN extractRetryAfter(error) * 1000
                            ELSE 60000

\* C37: what the engine reports to its caller after an exhausted recovery,
\* the outcome of recover and the statistics of getErrorStats, holds neither
\* a stack trace nor the credentials of the context recover was called with.
C37_NoStackNoCredentialsReported ==
    (rpc = "returned" /\ outcome.kind = "ExhaustedRetries" /\ errorStats.reported)
        => \A i \in 1..Len(errorStats.recent) :
              /\ errorStats.recent[i].stack = NoStack
              /\ ~Has(errorStats.recent[i].context, "credentials")

(***************************************************************************)
(* Further properties of the vault (checked under SpecProvision)           *)
(***************************************************************************)
\* C32: runs for different identities do not interfere through the vault: a
\* step of a run never changes the stored record of an identity other than
\* the run's own.
C32_OtherIdentityUntouched ==
    [][\A r \in Runs, i \in Identities :
          (ppc'[r] # ppc[r] /\ idOf[r] # i /\ ~file'.torn)
              => file'.agents[i] = file.agents[i]]_vars

(***************************************************************************)
(* Further properties of the chat onboarding (checked under SpecOnboard)   *)
(***************************************************************************)
\* C38: for every onboarding step and every input, empty or unexpected text
\* included, handleSetup returns a response and does not fail with an
\* internal error.
C38_SetupNeverFails == setupResponse.kind # "threw"

\* the steps handleInteractiveOnboarding has a case for
HandledSteps ==
    {"welcome", "vault_check", "vault_response", "site_url", "auth_method",
     "auth_username", "auth_secret", "auth_token", "agent_email", "captcha_config",
     "content_prefs"}

\* C39: the step set is closed: the step stored in a session is always one
\* with a handler of its own, so no session is dispatched to the fallback for
\* unknown steps.
C39_StepSetClosed == onboardingStep \in HandledSteps \cup {"none"}

(***************************************************************************)
(* Further properties of the email verifier (checked under SpecVerifier)   *)
(***************************************************************************)
\* C40: whenever checkEmailVerification reports success its result carries a
\* verification link; a message no link can be extracted from is not reported
\* as a success.
C40_SuccessCarriesLink ==
    (vpc = "returned" /\ vResult.success) => vResult.link

====
